---- MODULE Spec2Model ----
(***************************************************************************)
(* A model of dodo's compose session (src/dodo/compose.py), thread panel    *)
(* (src/dodo/thread.py) and search panel (src/dodo/search.py).             *)
(*                                                                         *)
(* Compose session: the UI thread runs ComposeView.edit, ComposeView.send, *)
(* ComposeView.edit_done and ComposeView.refresh; EditorThread.run and     *)
(* SendmailThread.run execute on background threads, one step at a time,   *)
(* interleaved with the UI thread.  A `done` signal emitted by a           *)
(* background thread is queued and consumed later on the UI thread.        *)
(***************************************************************************)
EXTENDS Integers, Sequences, FiniteSets, TLC

VARIABLES
    \* ---- ComposeView fields (compose.py:111-148)
    message_string,   \* the draft: [text |-> chars, atts |-> 'A' headers]
    status,           \* "draft", "sending", "sent", "error", "timed out"
    editor_thread,    \* "None" or "EditorThread"
    sendmail_thread,  \* "None" or "SendmailThread"
    reply_to,         \* "None" or "msg": the message replied to
    shown_status,     \* the status last rendered by ComposeView.refresh
    \* ---- EditorThread.run
    editor_pc,        \* "idle", "run", "editing", "exited", "emitted"
    tmpfile,          \* content of the temporary .eml file, or "nofile"
    editor_exit,      \* "none", "normal", "abnormal", "nolaunch"
    \* ---- SendmailThread.run
    send_pc,          \* "idle", "run", "assembled", "launched", "waiting",
                      \* "emitted", "finished"
    eml,              \* the assembled message, or "none"
    agent,            \* transfer agent process: "none", "running", "exit0", "exit1"
    agent_input,      \* what was written to the agent's stdin, or "none"
    agent_launches,   \* number of times the transfer agent was started
    waited,           \* time units spent in sendmail.wait
    send_outcome,     \* which way SendmailThread.run ended
    \* ---- effects on external collaborators
    sent_box,         \* messages appended to the sent maildir
    replied_tags,     \* number of 'notmuch tag +replied' runs
    notmuch_news,     \* number of 'notmuch new' runs
    invalidations,    \* number of app.invalidate_panels() calls
    \* ---- history
    lastCall,         \* the UI request handled by the last step, else "none"
    pre_edit,         \* message_string when the current edit was requested
    editors_live,     \* EditorThread.run executions started and not yet over
    senders_live,     \* SendmailThread.run executions started and not yet over
    \* ---- the indexer's view of one thread
    store,            \* its messages, in the order 'notmuch show' nests them
    \* ---- ThreadPanel and its ThreadModel (thread.py:115-129, 214-268)
    panel,            \* "none" before ThreadPanel.__init__, then "open"
    thread,           \* ThreadModel.thread, the flattened snapshot
    current_message,  \* ThreadPanel.current_message
    list_current,     \* row of thread_list's current index, -1 when invalid
    subject,          \* id of the message whose subject is shown, 0 for none
    \* ---- history of the thread panel
    op,               \* the handler run by the last step of the panel
    raised,           \* whether that handler ended by an IndexError
    read_at,          \* the index ThreadPanel.refresh last passed to message_at
    \* ---- tagging (thread.py:398-422, search.py:177-195)
    tag_target,       \* the current message or thread: [kind, tags]
    tag_call,         \* the tagging function called last and its argument
    tag_expr,         \* the tag expression after the sign test
    notmuch_args,     \* tag_expr.split(), the arguments of 'notmuch tag'
    tag_ran,          \* whether the last call ran 'notmuch tag'
    \* ---- a ThreadModel on its own (thread.py:115-149)
    model_d,          \* ThreadModel.d, the parsed output of 'notmuch show'
    model_thread,     \* ThreadModel.thread
    model_pc,         \* "new", "loaded" after refresh, "asked" after default_message
    model_default,    \* what default_message returned
    \* ---- SearchPanel and its SearchModel (search.py:32-45, 118-147)
    search_store,     \* the threads the indexer finds for the query, in order
    search_d,         \* SearchModel.d, the listing last fetched
    tree_current,     \* row of the tree's current index, -1 when invalid
    search_op         \* the handler of the search panel run by the last step

viewVars == <<message_string, status, editor_thread, sendmail_thread, reply_to, shown_status>>

editorVars == <<editor_pc, tmpfile, editor_exit, pre_edit, editors_live>>

sendVars ==
    <<send_pc, eml, agent, agent_input, agent_launches, waited, send_outcome,
      senders_live>>

effectVars == <<sent_box, replied_tags, notmuch_news, invalidations>>

composeVars == <<viewVars, editorVars, sendVars, effectVars, lastCall>>

threadVars ==
    <<store, panel, thread, current_message, list_current, subject, op, raised, read_at>>

tagVars == <<tag_target, tag_call, tag_expr, notmuch_args, tag_ran>>

modelVars == <<model_d, model_thread, model_pc, model_default>>

\* what neither the compose session nor the thread panel touches
searchVars == <<search_store, search_d, tree_current, search_op>>

libVars == <<tagVars, modelVars, searchVars>>

vars == <<composeVars, threadVars, libVars>>

----------------------------------------------------------------------------
\* Bounds and program constants

\* longest list of 'A' (attachment) headers the editor writes into a draft
MaxAtts == 1

\* sendmail.wait(30)
WaitTimeout == 30

----------------------------------------------------------------------------
\* Draft contents

\* an attachment header names a file that can be read, or one that cannot
AttKinds == {"readable", "missing"}

AttLists == UNION {[1..n -> AttKinds] : n \in 0..MaxAtts}

\* the text a new ComposeView starts with: headers and quoted body, no 'A'
\* header
InitialTexts == {<<"x", "LF">>}

\* what the external editor may leave in the temporary file
EditedFiles == [text : {<<"y", "CR", "LF">>}, atts : AttLists]

\* f.read() of a file opened in text mode: universal newlines
RECURSIVE ReadText(_)
ReadText(s) ==
    IF s = <<>> THEN <<>>
    ELSE IF Head(s) = "CR"
         THEN IF Len(s) >= 2 /\ s[2] = "LF"
              THEN <<"LF">> \o ReadText(Tail(Tail(s)))
              ELSE <<"LF">> \o ReadText(Tail(s))
         ELSE <<Head(s)>> \o ReadText(Tail(s))

\* f.write(message_string): on this platform '\n' is written as is
WriteFile(d) == d

ReadFile(f) == [text |-> ReadText(f.text), atts |-> f.atts]

----------------------------------------------------------------------------
\* ComposeView.__init__

ComposeInit ==
    /\ reply_to \in {"None", "msg"}
    /\ message_string \in [text : InitialTexts, atts : {<<>>}]
    /\ status = "draft"
    /\ shown_status = "draft"
    /\ editor_thread = "None"
    /\ sendmail_thread = "None"
    /\ editor_pc = "idle"
    /\ tmpfile = "nofile"
    /\ editor_exit = "none"
    /\ pre_edit = "none"
    /\ editors_live = 0
    /\ send_pc = "idle"
    /\ eml = "none"
    /\ agent = "none"
    /\ agent_input = "none"
    /\ agent_launches = 0
    /\ waited = 0
    /\ send_outcome = "none"
    /\ senders_live = 0
    /\ sent_box = <<>>
    /\ replied_tags = 0
    /\ notmuch_news = 0
    /\ invalidations = 0
    /\ lastCall = "none"

----------------------------------------------------------------------------
\* UI thread: ComposeView.edit, ComposeView.edit_done

\* a ComposeView.edit that starts an editor whatever editor_thread holds
EditGuardDropped == TRUE

\* the guard of ComposeView.edit
EditGuard == editor_thread = "None"

\* ComposeView.edit: start an EditorThread unless one is set
edit ==
    /\ lastCall' = "edit"
    /\ UNCHANGED <<threadVars, libVars>>
    /\ IF EditGuard
       THEN /\ editor_thread' = "EditorThread"
            /\ editor_pc' = "run"
            /\ editors_live' = editors_live + 1
            /\ pre_edit' = message_string
            /\ tmpfile' = "nofile"
            /\ editor_exit' = "none"
       ELSE UNCHANGED <<editor_thread, editorVars>>
    /\ UNCHANGED <<message_string, status, sendmail_thread, reply_to, shown_status>>
    /\ UNCHANGED <<sendVars, effectVars>>

\* EditorThread.run, lines 29-35: export the draft to a temporary file and
\* start the editor; subprocess.run raises when the editor cannot be
\* started, and the finally clause emits done
EditorStart ==
    /\ editor_pc = "run"
    /\ tmpfile' = WriteFile(message_string)
    /\ \E launched \in BOOLEAN :
          IF launched
          THEN /\ editor_pc' = "editing"
               /\ UNCHANGED <<editor_exit, editors_live>>
          ELSE /\ editor_pc' = "emitted"
               /\ editor_exit' = "nolaunch"
               /\ editors_live' = editors_live - 1
    /\ lastCall' = "none"
    /\ UNCHANGED <<threadVars, libVars>>
    /\ UNCHANGED <<viewVars, pre_edit, sendVars, effectVars>>

\* the external editor rewrites the temporary file in place
EditorRewrite ==
    /\ editor_pc = "editing"
    /\ \E f \in EditedFiles : tmpfile' = f
    /\ lastCall' = "none"
    /\ UNCHANGED <<threadVars, libVars>>
    /\ UNCHANGED <<viewVars, editor_pc, editor_exit, pre_edit, editors_live>>
    /\ UNCHANGED <<sendVars, effectVars>>

\* the external editor exits; subprocess.run returns whatever the exit status
EditorExit ==
    /\ editor_pc = "editing"
    /\ \E how \in {"normal", "abnormal"} : editor_exit' = how
    /\ editor_pc' = "exited"
    /\ lastCall' = "none"
    /\ UNCHANGED <<threadVars, libVars>>
    /\ UNCHANGED <<viewVars, tmpfile, pre_edit, editors_live, sendVars, effectVars>>

\* what EditorThread.run stores into panel.message_string once the editor
\* has returned (lines 37-38)
Reimport(file, how, old) == ReadFile(file)

\* EditorThread.run, lines 37-41: read the file back, remove it, emit done
EditorImport ==
    /\ editor_pc = "exited"
    /\ message_string' = Reimport(tmpfile, editor_exit, message_string)
    /\ tmpfile' = "nofile"
    /\ editor_pc' = "emitted"
    /\ editors_live' = editors_live - 1
    /\ lastCall' = "none"
    /\ UNCHANGED <<threadVars, libVars>>
    /\ UNCHANGED <<status, editor_thread, sendmail_thread, reply_to, shown_status>>
    /\ UNCHANGED <<editor_exit, pre_edit, sendVars, effectVars>>

\* ComposeView.edit_done, consuming the queued done signal on the UI thread;
\* the records of the finished edit are dropped with its thread object
edit_done ==
    /\ editor_pc = "emitted"
    /\ editor_thread' = "None"
    /\ shown_status' = status
    /\ editor_pc' = "idle"
    /\ tmpfile' = "nofile"
    /\ editor_exit' = "none"
    /\ pre_edit' = "none"
    /\ lastCall' = "none"
    /\ UNCHANGED <<threadVars, libVars>>
    /\ UNCHANGED <<message_string, status, sendmail_thread, reply_to>>
    /\ UNCHANGED <<editors_live, sendVars, effectVars>>

----------------------------------------------------------------------------
\* UI thread: ComposeView.send, and ComposeView.refresh on the done signal

\* a guard that lets a send start again once the last one is over
SendGuardAgain == sendmail_thread = "None" \/ send_pc = "finished"

\* the guard of ComposeView.send
SendGuard == sendmail_thread = "None"

\* ComposeView.send: show "sending" and start a SendmailThread unless one
\* is set
send ==
    /\ lastCall' = "send"
    /\ UNCHANGED <<threadVars, libVars>>
    /\ IF SendGuard
       THEN /\ status' = "sending"
            /\ shown_status' = "sending"
            /\ sendmail_thread' = "SendmailThread"
            /\ send_pc' = "run"
            /\ senders_live' = senders_live + 1
       ELSE UNCHANGED <<status, shown_status, sendmail_thread, send_pc, senders_live>>
    /\ UNCHANGED <<message_string, editor_thread, reply_to, editorVars, effectVars>>
    /\ UNCHANGED <<eml, agent, agent_input, agent_launches, waited, send_outcome>>

\* lines 74-79, one attachment: the file is read and attached; when it
\* cannot be read the IOError handler runs print("..." + a), and `a` is not
\* a name of the function, so the handler raises NameError
AttachOne(att) == IF att = "readable" THEN "attached" ELSE "NameError"

\* lines 53-79: the message built from the draft, or the exception that
\* leaves the try block
Assemble(d) ==
    [raised |-> \E i \in 1..Len(d.atts) : AttachOne(d.atts[i]) = "NameError",
     text |-> d.text,
     parts |-> Cardinality({i \in 1..Len(d.atts) : AttachOne(d.atts[i]) = "attached"})]

\* SendmailThread.run, lines 53-79; an exception other than TimeoutExpired
\* skips to the finally clause, which emits done
SendAssemble ==
    /\ send_pc = "run"
    /\ LET r == Assemble(message_string) IN
         IF r.raised
         THEN /\ send_pc' = "emitted"
              /\ send_outcome' = "raised"
              /\ senders_live' = senders_live - 1
              /\ eml' = eml
         ELSE /\ send_pc' = "assembled"
              /\ eml' = [text |-> r.text, parts |-> r.parts]
              /\ UNCHANGED <<send_outcome, senders_live>>
    /\ lastCall' = "none"
    /\ UNCHANGED <<threadVars, libVars>>
    /\ UNCHANGED <<viewVars, editorVars, effectVars>>
    /\ UNCHANGED <<agent, agent_input, agent_launches, waited>>

\* line 81: Popen starts the transfer agent, or raises OSError when the
\* agent cannot be launched
SendLaunch ==
    /\ send_pc = "assembled"
    /\ \E launched \in BOOLEAN :
          IF launched
          THEN /\ agent' = "running"
               /\ agent_launches' = agent_launches + 1
               /\ send_pc' = "launched"
               /\ UNCHANGED <<send_outcome, senders_live>>
          ELSE /\ send_pc' = "emitted"
               /\ send_outcome' = "raised"
               /\ senders_live' = senders_live - 1
               /\ UNCHANGED <<agent, agent_launches>>
    /\ lastCall' = "none"
    /\ UNCHANGED <<threadVars, libVars>>
    /\ UNCHANGED <<viewVars, editorVars, effectVars, eml, agent_input, waited>>

\* lines 82-84: the message is written to the agent's stdin and the wait
\* begins; writing to an agent that has exited already raises
\* BrokenPipeError, which the try statement does not catch
SendWrite ==
    /\ send_pc = "launched"
    /\ IF agent = "running"
       THEN /\ agent_input' = eml
            /\ waited' = 0
            /\ send_pc' = "waiting"
            /\ UNCHANGED <<send_outcome, senders_live>>
       ELSE /\ send_pc' = "emitted"
            /\ send_outcome' = "raised"
            /\ senders_live' = senders_live - 1
            /\ UNCHANGED <<agent_input, waited>>
    /\ lastCall' = "none"
    /\ UNCHANGED <<threadVars, libVars>>
    /\ UNCHANGED <<viewVars, editorVars, effectVars, eml, agent, agent_launches>>

\* one time unit passes in sendmail.wait(30)
Tick ==
    /\ send_pc = "waiting"
    /\ agent = "running"
    /\ waited < WaitTimeout
    /\ waited' = waited + 1
    /\ lastCall' = "none"
    /\ UNCHANGED <<threadVars, libVars>>
    /\ UNCHANGED <<viewVars, editorVars, effectVars>>
    /\ UNCHANGED <<send_pc, eml, agent, agent_input, agent_launches, send_outcome, senders_live>>

\* the transfer agent process exits: before its input is written, while
\* waited for, or after the wait was given up
AgentExit ==
    /\ agent = "running"
    /\ \E code \in {"exit0", "exit1"} : agent' = code
    /\ lastCall' = "none"
    /\ UNCHANGED <<threadVars, libVars>>
    /\ UNCHANGED <<viewVars, editorVars, effectVars>>
    /\ UNCHANGED <<send_pc, eml, agent_input, agent_launches, waited, send_outcome, senders_live>>

\* a wait that gives up before the bounded wait is over
WaitResultEarly(proc, w) ==
    IF proc = "exit0" THEN "sent"
    ELSE IF proc = "exit1" THEN "error"
    ELSE IF w >= WaitTimeout - 1 THEN "timed out"
    ELSE "waiting"

\* lines 84-99: how sendmail.wait(30) ends and which branch follows
WaitResult(proc, w) ==
    IF proc = "exit0" THEN "sent"
    ELSE IF proc = "exit1" THEN "error"
    ELSE IF w >= WaitTimeout THEN "timed out"
    ELSE "waiting"

\* line 91: the original message is tagged only when the draft is a reply
TagsReplied(r) == r # "None"

\* lines 85-95: returncode 0
SendSuccess ==
    /\ send_pc = "waiting"
    /\ WaitResult(agent, waited) = "sent"
    /\ sent_box' = Append(sent_box, [msg |-> eml, flags |-> {"S"}])
    /\ replied_tags' = IF TagsReplied(reply_to) THEN replied_tags + 1 ELSE replied_tags
    /\ notmuch_news' = notmuch_news + 1
    /\ invalidations' = invalidations + 1
    /\ status' = "sent"
    /\ send_outcome' = "sent"
    /\ send_pc' = "emitted"
    /\ senders_live' = senders_live - 1
    /\ lastCall' = "none"
    /\ UNCHANGED <<threadVars, libVars>>
    /\ UNCHANGED <<message_string, editor_thread, sendmail_thread, reply_to, shown_status>>
    /\ UNCHANGED <<editorVars, eml, agent, agent_input, agent_launches, waited>>

\* lines 96-97: any other returncode
SendError ==
    /\ send_pc = "waiting"
    /\ WaitResult(agent, waited) = "error"
    /\ status' = "error"
    /\ send_outcome' = "error"
    /\ send_pc' = "emitted"
    /\ senders_live' = senders_live - 1
    /\ lastCall' = "none"
    /\ UNCHANGED <<threadVars, libVars>>
    /\ UNCHANGED <<message_string, editor_thread, sendmail_thread, reply_to, shown_status>>
    /\ UNCHANGED <<editorVars, effectVars, eml, agent, agent_input, agent_launches, waited>>

\* lines 98-99: wait(30) raised TimeoutExpired; the process is left running
SendTimeout ==
    /\ send_pc = "waiting"
    /\ WaitResult(agent, waited) = "timed out"
    /\ status' = "timed out"
    /\ send_outcome' = "timed out"
    /\ send_pc' = "emitted"
    /\ senders_live' = senders_live - 1
    /\ lastCall' = "none"
    /\ UNCHANGED <<threadVars, libVars>>
    /\ UNCHANGED <<message_string, editor_thread, sendmail_thread, reply_to, shown_status>>
    /\ UNCHANGED <<editorVars, effectVars, eml, agent, agent_input, agent_launches, waited>>

\* SendmailThread.done is connected to ComposeView.refresh (line 49), which
\* renders the status; sendmail_thread stays set
send_done ==
    /\ send_pc = "emitted"
    /\ shown_status' = status
    /\ send_pc' = "finished"
    /\ lastCall' = "none"
    /\ UNCHANGED <<threadVars, libVars>>
    /\ UNCHANGED <<message_string, status, editor_thread, sendmail_thread, reply_to>>
    /\ UNCHANGED <<editorVars, effectVars>>
    /\ UNCHANGED <<eml, agent, agent_input, agent_launches, waited, send_outcome, senders_live>>

----------------------------------------------------------------------------
\* The indexer's thread and 'notmuch show'

\* most messages the thread holds at a time
MaxMsgs == 2

\* the timestamp of the message with a given id: odd ids are the later
\* ones, so that the nesting order is not the date order and messages with
\* equal timestamps occur
Timestamp(id) == IF id % 2 = 1 THEN 2 ELSE 1

Ids == 1..MaxMsgs

\* the JSON of 'notmuch show': a list of threads, each a list of
\* [message, replies] pairs; here the first message with the others as its
\* replies.  A list is [list |-> TRUE, items |-> ...], a message is
\* [list |-> FALSE, msg |-> ...]
Leaf(m) == [list |-> FALSE, msg |-> m]

List(xs) == [list |-> TRUE, items |-> xs]

Show(mails) ==
    IF mails = <<>> THEN List(<<>>)
    ELSE List(<<List(<<List(<<Leaf(mails[1]),
                              List([i \in 1..(Len(mails) - 1) |->
                                      List(<<Leaf(mails[i + 1]), List(<<>>)>>)])>>)>>)>>)

\* dfs of flat_thread (lines 41-45): the leaves, depth first, left to right
RECURSIVE dfs(_, _)
dfs(x, k) ==
    IF ~x.list THEN <<x.msg>>
    ELSE IF k > Len(x.items) THEN <<>>
    ELSE dfs(x.items[k], 1) \o dfs(x, k + 1)

\* a sort by ascending timestamp that turns around messages of equal
\* timestamp
RECURSIVE sortUnstable(_)
sortUnstable(ms) ==
    IF ms = <<>> THEN <<>>
    ELSE LET rest == sortUnstable(Tail(ms))
             m == Head(ms)
             k == Cardinality({i \in 1..Len(rest) : rest[i].timestamp <= m.timestamp})
         IN  SubSeq(rest, 1, k) \o <<m>> \o SubSeq(rest, k + 1, Len(rest))

\* list.sort(key=...) (line 48): a stable sort by ascending timestamp
RECURSIVE sort(_)
sort(ms) ==
    IF ms = <<>> THEN <<>>
    ELSE LET rest == sort(Tail(ms))
             m == Head(ms)
             k == Cardinality({i \in 1..Len(rest) : rest[i].timestamp < m.timestamp})
         IN  SubSeq(rest, 1, k) \o <<m>> \o SubSeq(rest, k + 1, Len(rest))

flat_thread(d) == sort(dfs(d, 1))

\* a new message reaches the thread
Deliver ==
    /\ Len(store) < MaxMsgs
    /\ \E tags \in {{}, {"unread"}} :
          LET used == {store[i].id : i \in 1..Len(store)}
              id == CHOOSE n \in Ids : n \notin used /\ \A k \in Ids \ used : n <= k
          IN  store' = Append(store, [id |-> id, timestamp |-> Timestamp(id), tags |-> tags])
    /\ UNCHANGED <<panel, thread, current_message, list_current, subject, op, raised, read_at>>
    /\ UNCHANGED <<composeVars, libVars>>

\* a message of the thread leaves the index
Remove ==
    /\ \E i \in 1..Len(store) :
          store' = SubSeq(store, 1, i - 1) \o SubSeq(store, i + 1, Len(store))
    /\ UNCHANGED <<panel, thread, current_message, list_current, subject, op, raised, read_at>>
    /\ UNCHANGED <<composeVars, libVars>>

\* 'notmuch tag -unread -- id:<id>'
Untag(mails, id) ==
    [i \in 1..Len(mails) |->
        IF mails[i].id = id
        THEN [mails[i] EXCEPT !.tags = @ \ {"unread"}]
        ELSE mails[i]]

----------------------------------------------------------------------------
\* ThreadModel and ThreadPanel

\* ThreadModel.num_messages
num_messages(th) == Len(th)

\* whether thread[i] raises IndexError: a Python list takes -len..len-1
IndexOk(th, i) == -Len(th) <= i /\ i < Len(th)

\* ThreadModel.message_at: thread[i], a negative i counting from the end
message_at(th, i) == IF i >= 0 THEN th[i + 1] ELSE th[Len(th) + i + 1]

\* the message index ThreadPanel.refresh reads after the model was refreshed
RefreshIndex(th, cur) == cur

\* ThreadPanel.refresh (lines 285-325) on the indexer's thread `mails` with
\* current_message = cur: the new snapshot, the list's current row (the
\* model reset clears it, setCurrentIndex sets it when the row exists), the
\* index read, whether reading it raised, and the subject shown
refresh(mails, cur, subj) ==
    LET th == flat_thread(Show(mails))
        ix == RefreshIndex(th, cur)
    IN  [thread |-> th,
         list_current |-> IF 0 <= cur /\ cur < Len(th) THEN cur ELSE -1,
         read_at |-> ix,
         raised |-> ~IndexOk(th, ix),
         subject |-> IF IndexOk(th, ix) THEN message_at(th, ix).id ELSE subj]

\* ThreadPanel.show_message (lines 333-340) with current_message already
\* set to cur: refresh, then drop the unread tag of the message shown,
\* which tags it in the index and refreshes again (tag_message, 415-422)
show_message(cur) ==
    IF cur >= 0 /\ cur < num_messages(thread)
    THEN \E r \in {refresh(store, cur, subject)} :
         IF r.raised
         THEN /\ thread' = r.thread
              /\ list_current' = r.list_current
              /\ read_at' = r.read_at
              /\ subject' = r.subject
              /\ raised' = TRUE
              /\ store' = store
         ELSE LET m == message_at(r.thread, cur) IN
              IF "unread" \in m.tags
              THEN \E r2 \in {refresh(Untag(store, m.id), cur, r.subject)} :
                       /\ store' = Untag(store, m.id)
                       /\ thread' = r2.thread
                       /\ list_current' = r2.list_current
                       /\ read_at' = r2.read_at
                       /\ subject' = r2.subject
                       /\ raised' = r2.raised
              ELSE /\ thread' = r.thread
                   /\ list_current' = r.list_current
                   /\ read_at' = r.read_at
                   /\ subject' = r.subject
                   /\ raised' = FALSE
                   /\ store' = store
    ELSE /\ raised' = FALSE
         /\ UNCHANGED <<store, thread, list_current, subject, read_at>>

\* line 141: 'tags' in m and 'unread' in m['tags']
IsUnread(m) == "tags" \in DOMAIN m /\ "unread" \in m.tags

\* a default_message that returns the newest unread message
default_message_newest(th) ==
    IF \E i \in 1..Len(th) : IsUnread(th[i])
    THEN (CHOOSE i \in 1..Len(th) :
            /\ IsUnread(th[i])
            /\ \A j \in (i + 1)..Len(th) : ~IsUnread(th[j])) - 1
    ELSE num_messages(th) - 1

\* ThreadModel.default_message (lines 140-144)
default_message(th) ==
    IF \E i \in 1..Len(th) : IsUnread(th[i])
    THEN (CHOOSE i \in 1..Len(th) :
            /\ IsUnread(th[i])
            /\ \A j \in 1..(i - 1) : ~IsUnread(th[j])) - 1
    ELSE num_messages(th) - 1

\* ThreadPanel.__init__ (lines 218-268): the model is built from 'notmuch
\* show' and the default message is shown.  The panel is opened for a
\* thread of the search listing, which holds a message
ThreadPanelInit ==
    /\ panel = "none"
    /\ store # <<>>
    /\ panel' = "open"
    /\ op' = "init"
    /\ LET th == flat_thread(Show(store))
           i == default_message(th)
       IN  /\ current_message' = i
           /\ IF i >= 0
              THEN LET m == message_at(th, i)
                       tagged == IF "unread" \in m.tags THEN Untag(store, m.id) ELSE store
                   IN  \E r2 \in {refresh(tagged, i, 0)} :
                       /\ store' = tagged
                       /\ thread' = r2.thread
                       /\ list_current' = r2.list_current
                       /\ read_at' = r2.read_at
                       /\ subject' = r2.subject
                       /\ raised' = r2.raised
              ELSE /\ thread' = th
                   /\ raised' = FALSE
                   /\ UNCHANGED <<store, list_current, subject, read_at>>
    /\ UNCHANGED <<composeVars, libVars>>

\* ThreadPanel.refresh, called when the panel is told to refresh
Refresh ==
    /\ panel = "open"
    /\ op' = "refresh"
    /\ \E r \in {refresh(store, current_message, subject)} :
         /\ thread' = r.thread
         /\ list_current' = r.list_current
         /\ read_at' = r.read_at
         /\ subject' = r.subject
         /\ raised' = r.raised
    /\ UNCHANGED <<store, panel, current_message>>
    /\ UNCHANGED <<composeVars, libVars>>

\* a click on row i of the thread list: show_message(i)
Click ==
    /\ panel = "open"
    /\ op' = "show"
    /\ \E i \in 0..(num_messages(thread) - 1) :
          /\ current_message' = i
          /\ show_message(i)
    /\ UNCHANGED panel
    /\ UNCHANGED <<composeVars, libVars>>

\* ThreadPanel.next_message: show_message(min(current + 1, count - 1)),
\* where show_message(-1) keeps the current message
next_message ==
    /\ panel = "open"
    /\ op' = "show"
    /\ LET a == current_message + 1
           b == num_messages(thread) - 1
           i == IF a < b THEN a ELSE b
           cur == IF i # -1 THEN i ELSE current_message
       IN  /\ current_message' = cur
           /\ show_message(cur)
    /\ UNCHANGED panel
    /\ UNCHANGED <<composeVars, libVars>>

\* ThreadPanel.previous_message: show_message(max(current - 1, 0))
previous_message ==
    /\ panel = "open"
    /\ op' = "show"
    /\ LET a == current_message - 1
           i == IF a > 0 THEN a ELSE 0
       IN  /\ current_message' = i
           /\ show_message(i)
    /\ UNCHANGED panel
    /\ UNCHANGED <<composeVars, libVars>>

ThreadInit ==
    /\ store = <<>>
    /\ panel = "none"
    /\ thread = <<>>
    /\ current_message = -1
    /\ list_current = -1
    /\ subject = 0
    /\ op = "none"
    /\ raised = FALSE
    /\ read_at = -1

----------------------------------------------------------------------------
\* Tagging: ThreadPanel.toggle_message_tag / tag_message and
\* SearchPanel.toggle_thread_tag / tag_thread

\* longest tag name a key binding toggles
MaxTagLen == 2

\* longest tag expression typed at the tag prompt
MaxExprLen == 3

\* most tags the current message or thread carries
MaxTags == 2

\* the characters of tag names and tag expressions: a letter, the two
\* signs, and white space
Chars == {"a", "+", "-", " "}

Seqs(S, n) == UNION {[1..k -> S] : k \in 0..n}

\* tag names: not empty, no white space
TagNames == Seqs(Chars \ {" "}, MaxTagLen) \ {<<>>}

TagExprs == Seqs(Chars, MaxExprLen)

\* c in s, for a character c and a string s
Contains(s, c) == \E i \in 1..Len(s) : s[i] = c

\* str.split(): the words of s between runs of white space
RECURSIVE split(_)
split(s) ==
    IF s = <<>> THEN <<>>
    ELSE IF Head(s) = " " THEN split(Tail(s))
    ELSE LET stops == {i \in 1..Len(s) : s[i] = " "}
             n == IF stops = {} THEN Len(s) + 1
                  ELSE CHOOSE i \in stops : \A j \in stops : i <= j
         IN  <<SubSeq(s, 1, n - 1)>> \o split(SubSeq(s, n, Len(s)))

\* toggle_message_tag, lines 403-406, and toggle_thread_tag, lines 180-183:
\* the expression built from the membership test
ToggleExpr(tags, tag) == IF tag \in tags THEN <<"-">> \o tag ELSE <<"+">> \o tag

\* a sign test that looks at the first character only
NeedsSignByPrefix(e) == e = <<>> \/ Head(e) \notin {"+", "-"}

\* the sign test of tag_message (line 416) and tag_thread (line 189)
NeedsSign(e) == ~(Contains(e, "+") \/ Contains(e, "-"))

\* tag_message, lines 416-417, and tag_thread, lines 189-190
Normalize(e) == IF NeedsSign(e) THEN <<"+">> \o e ELSE e

\* 'notmuch tag ARGS -- TARGET': each +TAG adds and each -TAG removes; a
\* command with no argument, an unsigned one or an empty tag name is
\* refused as a whole
RECURSIVE TagOps(_, _)
TagOps(tags, args) ==
    IF args = <<>> THEN tags
    ELSE LET a == Head(args) IN
         IF a[1] = "+" THEN TagOps(tags \cup {Tail(a)}, Tail(args))
         ELSE TagOps(tags \ {Tail(a)}, Tail(args))

NotmuchTag(tags, args) ==
    IF /\ args # <<>>
       /\ \A i \in 1..Len(args) : args[i][1] \in {"+", "-"} /\ Len(args[i]) >= 2
    THEN TagOps(tags, args)
    ELSE tags

\* the body of tag_message (lines 415-422) and of tag_thread (lines
\* 188-195) for the expression e: the sign test, 'notmuch tag' on the
\* split expression, and the refresh that reads the tags back
RunTag(fn, arg, e) ==
    LET x == Normalize(e)
        new == NotmuchTag(tag_target.tags, split(x))
    IN  /\ Cardinality(new) <= MaxTags
        /\ tag_call' = [fn |-> fn, arg |-> arg]
        /\ tag_expr' = x
        /\ notmuch_args' = split(x)
        /\ tag_ran' = TRUE
        /\ tag_target' = [tag_target EXCEPT !.tags = new]

toggle_message_tag ==
    /\ tag_target.kind = "message"
    /\ \E tag \in TagNames :
          RunTag("toggle_message_tag", tag, ToggleExpr(tag_target.tags, tag))
    /\ UNCHANGED <<composeVars, threadVars, modelVars, searchVars>>

tag_message ==
    /\ tag_target.kind = "message"
    /\ \E e \in TagExprs : RunTag("tag_message", e, e)
    /\ UNCHANGED <<composeVars, threadVars, modelVars, searchVars>>

\* thread_json returns None when the tree has no current row
toggle_thread_tag ==
    /\ tag_target.kind = "thread"
    /\ \E tag \in TagNames :
          IF tag_target.present
          THEN RunTag("toggle_thread_tag", tag, ToggleExpr(tag_target.tags, tag))
          ELSE /\ tag_call' = [fn |-> "toggle_thread_tag", arg |-> tag]
               /\ tag_ran' = FALSE
               /\ UNCHANGED <<tag_target, tag_expr, notmuch_args>>
    /\ UNCHANGED <<composeVars, threadVars, modelVars, searchVars>>

\* tag_thread tests the sign before it tests thread_id
tag_thread ==
    /\ tag_target.kind = "thread"
    /\ \E e \in TagExprs :
          IF tag_target.present
          THEN RunTag("tag_thread", e, e)
          ELSE /\ tag_call' = [fn |-> "tag_thread", arg |-> e]
               /\ tag_expr' = Normalize(e)
               /\ tag_ran' = FALSE
               /\ UNCHANGED <<tag_target, notmuch_args>>
    /\ UNCHANGED <<composeVars, threadVars, modelVars, searchVars>>

\* no panel has tagged anything
TagIdle ==
    /\ tag_call = [fn |-> "none", arg |-> <<>>]
    /\ tag_expr = <<>>
    /\ notmuch_args = <<>>
    /\ tag_ran = FALSE

\* the current message of a thread panel, or the current row of a search
\* panel, which may have none
TagInit ==
    /\ TagIdle
    /\ \E tags \in {t \in SUBSET TagNames : Cardinality(t) <= MaxTags} :
          \/ tag_target = [kind |-> "message", present |-> TRUE, tags |-> tags]
          \/ tag_target = [kind |-> "thread", present |-> TRUE, tags |-> tags]
          \/ tag_target = [kind |-> "thread", present |-> FALSE, tags |-> {}]

----------------------------------------------------------------------------
\* A ThreadModel on the output of 'notmuch show' for any thread

\* most messages of a thread
MaxLeaves == 3

Stamps == {1, 2}

\* a message has no tags key, an empty tag list, or the tag unread
TagFields == {"absent", "empty", "unread"}

\* message i of the thread, numbered in the order 'notmuch show' lists them
Message(i, ts, tf) ==
    IF tf = "absent"
    THEN [id |-> i, timestamp |-> ts]
    ELSE [id |-> i, timestamp |-> ts,
          tags |-> IF tf = "unread" THEN {"unread"} ELSE {}]

\* the reply structures of n messages listed depth first: p[i] is the
\* message that i replies to, 0 for none
Parents(n) ==
    {p \in [1..n -> 0..n] :
        \A i \in 1..n :
            /\ p[i] < i
            /\ \A j \in (p[i] + 1)..(i - 1) : p[j] >= p[i]}

\* the members of a set of numbers in ascending order
Ascending(S) ==
    [k \in 1..Cardinality(S) |->
        CHOOSE j \in S : Cardinality({x \in S : x < j}) = k - 1]

\* [message, [replies]] for message i
RECURSIVE Pair(_, _, _)
Pair(ms, p, i) ==
    LET kids == Ascending({j \in 1..Len(ms) : p[j] = i})
    IN  List(<<Leaf(ms[i]),
               List([k \in 1..Len(kids) |-> Pair(ms, p, kids[k])])>>)

\* the JSON of 'notmuch show' for one thread: a list holding the thread,
\* which is the list of the pairs of its top-level messages
ShowThread(ms, p) ==
    IF ms = <<>> THEN List(<<>>)
    ELSE LET roots == Ascending({j \in 1..Len(ms) : p[j] = 0})
         IN  List(<<List([k \in 1..Len(roots) |-> Pair(ms, p, roots[k])])>>)

\* ThreadModel.refresh (lines 120-129), called by ThreadModel.__init__
ModelRefresh ==
    /\ model_pc = "new"
    /\ model_thread' = flat_thread(model_d)
    /\ model_pc' = "loaded"
    /\ UNCHANGED <<model_d, model_default>>
    /\ UNCHANGED <<composeVars, threadVars, tagVars, searchVars>>

\* a call of ThreadModel.default_message
DefaultMessage ==
    /\ model_pc = "loaded"
    /\ model_default' = default_message(model_thread)
    /\ model_pc' = "asked"
    /\ UNCHANGED <<model_d, model_thread>>
    /\ UNCHANGED <<composeVars, threadVars, tagVars, searchVars>>

\* no ThreadModel on its own
ModelIdle ==
    /\ model_d = List(<<>>)
    /\ model_thread = <<>>
    /\ model_pc = "new"
    /\ model_default = -1

\* a ThreadModel about to load some thread
ModelInit ==
    /\ \E n \in 0..MaxLeaves :
          \E ts \in [1..n -> Stamps], tf \in [1..n -> TagFields], p \in Parents(n) :
              model_d = ShowThread([i \in 1..n |-> Message(i, ts[i], tf[i])], p)
    /\ model_thread = <<>>
    /\ model_pc = "new"
    /\ model_default = -1

----------------------------------------------------------------------------
\* SearchModel and SearchPanel

\* most threads the query finds at a time
MaxThreads == 3

ThreadIds == 1..MaxThreads

\* a thread starts to match the query; the indexer lists it first
Arrive ==
    /\ Len(search_store) < MaxThreads
    /\ \E t \in ThreadIds :
          /\ \A i \in 1..Len(search_store) : search_store[i] # t
          /\ search_store' = <<t>> \o search_store
    /\ UNCHANGED <<search_d, tree_current, search_op>>
    /\ UNCHANGED <<composeVars, threadVars, tagVars, modelVars>>

\* a thread stops matching the query
Leave ==
    /\ \E i \in 1..Len(search_store) :
          search_store' = SubSeq(search_store, 1, i - 1)
                             \o SubSeq(search_store, i + 1, Len(search_store))
    /\ UNCHANGED <<search_d, tree_current, search_op>>
    /\ UNCHANGED <<composeVars, threadVars, tagVars, modelVars>>

\* SearchModel.index (lines 88-90) for a listing of n rows: the row of the
\* index returned, -1 for the invalid QModelIndex()
index(n, row) == IF 0 <= row /\ row < n THEN row ELSE -1

\* SearchPanel.last_thread (lines 167-170) on a listing of n rows: the
\* tree's current row afterwards.  checkIndex accepts what index returned
LastThreadRow(n) == index(n, n - 1)

\* SearchPanel.refresh, lines 142-145, after the model reset has cleared
\* the tree's current index: the current row set from the index `row`
\* taken before the reset
RestoreRow(n, row) == IF row >= n THEN LastThreadRow(n) ELSE row

\* SearchPanel.__init__ (lines 118-135): the model fetches the listing and
\* the first row is made current when there is one
SearchPanelInit ==
    /\ search_op = "none"
    /\ search_op' = "init"
    /\ search_d' = search_store
    /\ tree_current' = IF Len(search_store) > 0 THEN index(Len(search_store), 0) ELSE -1
    /\ UNCHANGED search_store
    /\ UNCHANGED <<composeVars, threadVars, tagVars, modelVars>>

\* SearchPanel.refresh (lines 137-147)
SearchRefresh ==
    /\ search_op # "none"
    /\ search_op' = "refresh"
    /\ search_d' = search_store
    /\ tree_current' = RestoreRow(Len(search_store), tree_current)
    /\ UNCHANGED search_store
    /\ UNCHANGED <<composeVars, threadVars, tagVars, modelVars>>

\* SearchPanel.next_thread (lines 152-155)
next_thread ==
    /\ search_op # "none"
    /\ search_op' = "move"
    /\ LET row == tree_current + 1 IN
         tree_current' = IF row >= 0 /\ row < Len(search_d) THEN row ELSE tree_current
    /\ UNCHANGED <<search_store, search_d>>
    /\ UNCHANGED <<composeVars, threadVars, tagVars, modelVars>>

\* SearchPanel.previous_thread (lines 157-160)
previous_thread ==
    /\ search_op # "none"
    /\ search_op' = "move"
    /\ LET row == tree_current - 1 IN
         tree_current' = IF row >= 0 /\ row < Len(search_d) THEN row ELSE tree_current
    /\ UNCHANGED <<search_store, search_d>>
    /\ UNCHANGED <<composeVars, threadVars, tagVars, modelVars>>

\* SearchPanel.first_thread (lines 162-165)
first_thread ==
    /\ search_op # "none"
    /\ search_op' = "move"
    /\ tree_current' = index(Len(search_d), 0)
    /\ UNCHANGED <<search_store, search_d>>
    /\ UNCHANGED <<composeVars, threadVars, tagVars, modelVars>>

\* SearchPanel.last_thread (lines 167-170)
last_thread ==
    /\ search_op # "none"
    /\ search_op' = "move"
    /\ tree_current' = LastThreadRow(Len(search_d))
    /\ UNCHANGED <<search_store, search_d>>
    /\ UNCHANGED <<composeVars, threadVars, tagVars, modelVars>>

\* no search panel
SearchIdle ==
    /\ search_store = <<>>
    /\ search_d = <<>>
    /\ tree_current = -1
    /\ search_op = "none"

\* a query finding some threads, and no panel for it yet
SearchInit ==
    /\ search_store \in {q \in Seqs(ThreadIds, MaxThreads) :
                            \A i, j \in 1..Len(q) : i # j => q[i] # q[j]}
    /\ search_d = <<>>
    /\ tree_current = -1
    /\ search_op = "none"

\* the state of what only the other specifications use
LibIdle ==
    /\ TagIdle
    /\ tag_target = [kind |-> "none", present |-> FALSE, tags |-> {}]
    /\ ModelIdle
    /\ SearchIdle

----------------------------------------------------------------------------
\* The compose session

Init == ComposeInit /\ ThreadInit /\ LibIdle

Next ==
    \/ edit
    \/ EditorStart
    \/ EditorRewrite
    \/ EditorExit
    \/ EditorImport
    \/ edit_done
    \/ send
    \/ SendAssemble
    \/ SendLaunch
    \/ SendWrite
    \/ Tick
    \/ AgentExit
    \/ SendSuccess
    \/ SendError
    \/ SendTimeout
    \/ send_done

Spec == Init /\ [][Next]_vars

----------------------------------------------------------------------------
\* The thread panel and the indexer

ThreadNext ==
    \/ Deliver
    \/ Remove
    \/ ThreadPanelInit
    \/ Refresh
    \/ Click
    \/ next_message
    \/ previous_message

\* the compose session stays as constructed
ThreadSpecInit == Init /\ reply_to = "None"

ThreadSpec == ThreadSpecInit /\ [][ThreadNext]_vars

----------------------------------------------------------------------------
\* Tagging from a thread panel or a search panel

TagNext ==
    \/ toggle_message_tag
    \/ tag_message
    \/ toggle_thread_tag
    \/ tag_thread

TagSpecInit ==
    /\ ComposeInit /\ reply_to = "None" /\ ThreadInit
    /\ TagInit /\ ModelIdle /\ SearchIdle

TagSpec == TagSpecInit /\ [][TagNext]_vars

----------------------------------------------------------------------------
\* A ThreadModel loading a thread and giving its default message

ModelNext ==
    \/ ModelRefresh
    \/ DefaultMessage

ModelSpecInit ==
    /\ ComposeInit /\ reply_to = "None" /\ ThreadInit /\ TagIdle
    /\ tag_target = [kind |-> "none", present |-> FALSE, tags |-> {}]
    /\ ModelInit
    /\ SearchIdle

ModelSpec == ModelSpecInit /\ [][ModelNext]_vars

----------------------------------------------------------------------------
\* A search panel and the indexer's listing for its query

SearchNext ==
    \/ Arrive
    \/ Leave
    \/ SearchPanelInit
    \/ SearchRefresh
    \/ next_thread
    \/ previous_thread
    \/ first_thread
    \/ last_thread

SearchSpecInit ==
    /\ ComposeInit /\ reply_to = "None" /\ ThreadInit /\ TagIdle
    /\ tag_target = [kind |-> "none", present |-> FALSE, tags |-> {}]
    /\ ModelIdle
    /\ SearchInit

SearchSpec == SearchSpecInit /\ [][SearchNext]_vars

----------------------------------------------------------------------------
\* Properties of the compose session

EditorInFlight == editors_live > 0

SendInFlight == senders_live > 0

SendOver == send_pc \in {"emitted", "finished"}

HasMissing(d) == \E i \in 1..Len(d.atts) : d.atts[i] = "missing"

Readable(d) == {i \in 1..Len(d.atts) : d.atts[i] = "readable"}

\* C1: once the completion notification of a send has been delivered, the
\* status is sent, error or timed out, and no longer sending, whichever way
\* the send went (exit 0, nonzero exit, no exit within the wait, transfer
\* agent not launched, failure while assembling the message).
C1_SendLeavesSending ==
    send_pc = "finished" => status \in {"sent", "error", "timed out"}

\* C2: a draft naming a missing attachment is still assembled: assembling
\* does not abort the send, the message keeps the draft's text and holds
\* one part per readable attachment and none for the missing one.
C2_MissingAttachmentSkipped ==
    [][(send_pc = "run" /\ send_pc' # "run" /\ HasMissing(message_string))
        => /\ send_pc' = "assembled"
           /\ eml' = [text |-> message_string.text,
                      parts |-> Cardinality(Readable(message_string))]]_vars

\* C3: after a send attempt ended in error or timed out, a send request
\* leaves the draft as it is and starts a new send attempt.
C3_RetryAfterFailure ==
    [][(lastCall' = "send" /\ SendOver /\ status \in {"error", "timed out"})
        => /\ message_string' = message_string
           /\ send_pc' = "run"
           /\ senders_live' = senders_live + 1]_vars

\* C4: an editor invocation and a send invocation of the session are never
\* in flight at the same time.
C4_EditSendExclusive == ~(EditorInFlight /\ SendInFlight)

\* C5: at most one editor invocation and at most one send invocation are in
\* flight; a call to edit while an editor is in flight, or to send while a
\* send is in flight, starts nothing and changes neither status nor draft
\* nor anything else of the session.
C5_AtMostOneEach ==
    /\ [](editors_live <= 1 /\ senders_live <= 1)
    /\ [][((lastCall' = "edit" /\ EditorInFlight) \/ (lastCall' = "send" /\ SendInFlight))
            => UNCHANGED <<viewVars, editorVars, sendVars, effectVars>>]_vars

\* a call to edit that found the editor running, with a send in flight too
C5_Witness ==
    /\ lastCall = "edit"
    /\ editor_pc = "editing"
    /\ send_pc = "waiting"

\* C6: when the wait ends with the transfer agent having exited with status
\* 0, the sent mailbox has gained exactly one message, flagged seen, the
\* original is tagged replied exactly when the draft is a reply, notmuch new
\* has run, the views have been invalidated and the status is sent.
C6_SuccessEffects ==
    /\ (SendOver /\ agent = "exit0" /\ send_outcome # "timed out")
          => send_outcome = "sent"
    /\ send_outcome = "sent"
          => /\ Len(sent_box) = 1
             /\ sent_box[1] = [msg |-> agent_input, flags |-> {"S"}]
             /\ replied_tags = (IF reply_to = "None" THEN 0 ELSE 1)
             /\ notmuch_news = 1
             /\ invalidations = 1
             /\ status = "sent"


\* C7: when the wait ends with the transfer agent having exited with a
\* nonzero status, the status is error and nothing was written to the sent
\* mailbox, nothing tagged and no view invalidated.
C7_ErrorNoEffects ==
    /\ (SendOver /\ agent = "exit1" /\ send_outcome # "timed out")
          => send_outcome = "error"
    /\ send_outcome = "error"
          => /\ status = "error"
             /\ sent_box = <<>>
             /\ replied_tags = 0
             /\ notmuch_news = 0
             /\ invalidations = 0


\* C8: the wait is given up exactly when the transfer agent has not exited
\* after WaitTimeout time units; the process is left running, the status is
\* timed out, and nothing is written to the sent mailbox or tagged, also
\* when the abandoned process exits with status 0 later.
C8_TimeoutAbandons ==
    /\ [](send_outcome = "timed out"
            => /\ status = "timed out"
               /\ waited = WaitTimeout
               /\ sent_box = <<>>
               /\ replied_tags = 0)
    /\ [][(send_pc = "waiting" /\ send_pc' # "waiting" /\ agent = "running")
            => /\ waited = WaitTimeout
               /\ send_outcome' = "timed out"
               /\ agent' = "running"]_vars

\* the abandoned transfer agent has exited with status 0 after the timeout
C8_Witness == send_outcome = "timed out" /\ agent = "exit0" /\ send_pc = "finished"

\* C9: when the editor could not be started or exited abnormally, the draft
\* after edit_done is the draft the edit was started with, and the session
\* accepts a new edit.
C9_EditorFailureKeepsDraft ==
    [][(editor_pc = "emitted" /\ editor_pc' = "idle"
          /\ editor_exit \in {"nolaunch", "abnormal"})
        => /\ message_string' = pre_edit
           /\ editor_thread' = "None"]_vars

\* a step of the UI thread: a call of edit or send, or edit_done or refresh
\* consuming a done signal
UiStep ==
    \/ lastCall' # "none"
    \/ editor_pc = "emitted" /\ editor_pc' = "idle"
    \/ send_pc = "emitted" /\ send_pc' = "finished"

\* C15: the draft, the status and the invalidation of the views change
\* only in steps of the UI thread, never in a step of EditorThread.run or
\* SendmailThread.run.
C15_WritesOnUiThread ==
    [][(\/ message_string' # message_string
        \/ status' # status
        \/ invalidations' # invalidations) => UiStep]_vars

\* C16: in a compose session the transfer agent is started at most once
\* and the sent mailbox gains at most one message; a send request made
\* after a send was started changes nothing, however that send ended.
C16_SendAtMostOnce ==
    /\ [](agent_launches <= 1 /\ Len(sent_box) <= 1)
    /\ [][(lastCall' = "send" /\ sendmail_thread # "None")
            => UNCHANGED <<viewVars, editorVars, sendVars, effectVars>>]_vars

\* a send request after the first send ended in error
C16_Witness ==
    /\ lastCall = "send"
    /\ send_pc = "finished"
    /\ send_outcome = "error"
    /\ agent_launches = 1

----------------------------------------------------------------------------
\* Properties of the thread panel

ValidIndex(th, i) == 0 <= i /\ i < Len(th)

\* C10: after a refresh of the thread panel in which the number of messages
\* changed, the selected message index is the one before when that is still
\* an index of the thread and the last index otherwise, and the refresh
\* has read no message at an index outside 0..count-1.
C10_RefreshClampsSelection ==
    [][(panel = "open" /\ op' = "refresh" /\ Len(thread') # Len(thread))
        => /\ current_message' = (IF ValidIndex(thread', current_message)
                                  THEN current_message
                                  ELSE Len(thread') - 1)
           /\ ValidIndex(thread', read_at')
           /\ ~raised']_vars

----------------------------------------------------------------------------
\* Properties of tagging

Toggles == {"toggle_message_tag", "toggle_thread_tag"}

Applies == {"tag_message", "tag_thread"}

\* C11: a toggle of tag T hands the indexer exactly -T when the target's
\* tags contain T and exactly +T otherwise; an expression given to
\* tag_message or tag_thread that does not start with a sign, a sign in its
\* interior or not, reaches the indexer as + followed by the expression.
C11_TagExpressionSigned ==
    [][/\ (tag_call'.fn \in Toggles /\ tag_ran')
            => notmuch_args' = <<(IF tag_call'.arg \in tag_target.tags
                                  THEN <<"-">> ELSE <<"+">>) \o tag_call'.arg>>
       /\ (tag_call'.fn \in Applies /\ tag_ran' /\ NeedsSignByPrefix(tag_call'.arg))
            => /\ tag_expr' = <<"+">> \o tag_call'.arg
               /\ notmuch_args' = split(<<"+">> \o tag_call'.arg)]_vars

----------------------------------------------------------------------------
\* Properties of a ThreadModel

\* the messages of a 'notmuch show' tree
RECURSIVE LeavesOf(_)
LeavesOf(x) ==
    IF ~x.list THEN {x.msg}
    ELSE UNION {LeavesOf(x.items[k]) : k \in 1..Len(x.items)}

\* C12: the flattened thread holds each message of the tree once, its
\* timestamps do not decrease, and messages of equal timestamp are in
\* their depth-first order, which is the order of their ids.
C12_FlattenStableSort ==
    model_pc # "new" =>
        /\ Len(model_thread) = Cardinality(LeavesOf(model_d))
        /\ {model_thread[i] : i \in 1..Len(model_thread)} = LeavesOf(model_d)
        /\ \A i, j \in 1..Len(model_thread) :
              i < j =>
                 /\ model_thread[i].timestamp <= model_thread[j].timestamp
                 /\ model_thread[i].timestamp = model_thread[j].timestamp
                       => model_thread[i].id < model_thread[j].id

\* a thread of three messages was flattened: the first listed is the
\* latest, and the other two have the same timestamp
C12_Witness ==
    /\ model_pc = "loaded"
    /\ Len(model_thread) = 3
    /\ model_thread[3].id = 1
    /\ model_thread[1].timestamp = model_thread[2].timestamp
    /\ model_thread[1].id = 2

\* the 0-based indices of the unread messages of the loaded thread
UnreadAt == {i \in 0..(Len(model_thread) - 1) : IsUnread(model_thread[i + 1])}

\* C13: default_message returns the smallest index of a message tagged
\* unread when there is one, otherwise the last index, which is -1 for an
\* empty thread; a message without a tags field is not unread.
C13_DefaultSelection ==
    model_pc = "asked" =>
        IF UnreadAt # {}
        THEN model_default \in UnreadAt /\ \A j \in UnreadAt : model_default <= j
        ELSE model_default = Len(model_thread) - 1

\* the default message is the second of three: the first has no tags
\* field, the second and the third are unread
C13_Witness ==
    /\ model_pc = "asked"
    /\ Len(model_thread) = 3
    /\ "tags" \notin DOMAIN model_thread[1]
    /\ UnreadAt = {1, 2}
    /\ model_default = 1

----------------------------------------------------------------------------
\* Properties of the search panel

\* C14: after a refresh of the search panel, a row that was selected and
\* is past the end of the new listing has given way to the last row, a row
\* that is still a row of the listing is selected as before, and the
\* selected row is a row of the listing, or none when the listing is empty.
C14_SearchRefreshSelection ==
    [][search_op' = "refresh"
        => /\ tree_current >= Len(search_d')
                => tree_current' = Len(search_d') - 1
           /\ (0 <= tree_current /\ tree_current < Len(search_d'))
                => tree_current' = tree_current
           /\ \/ 0 <= tree_current' /\ tree_current' < Len(search_d')
              \/ tree_current' = -1 /\ search_d' = <<>>]_vars

====
